---- MODULE Spec2Model ----
(***************************************************************************)
(* State-machine model of deploy/buildtools/bitbuilder.py: one build job   *)
(* driven through F1BitBuilder.replace_rtl, build_driver, build_bitstream  *)
(* and aws_create_afi.  Every external command the code issues (fabric     *)
(* run/local/rsync_project, the notification call, the registry file       *)
(* write) is one step that appends its name to `log`.                      *)
(*                                                                         *)
(* Reading of the source:                                                  *)
(*  - run()/local() hand back the exit code of the command instead of      *)
(*    aborting, as `run(...).return_code` and `vivado_result != 0`         *)
(*    presuppose;                                                          *)
(*  - self.remote_setup() is the copy made by cl_dir_setup, and            *)
(*    aws_create_afi works on the job's build_config;                      *)
(*  - the while loop of aws_create_afi spans the query, the parse, the     *)
(*    log line and the sleep; the `with open` and `if post_build_hook`     *)
(*    lines own the statements that follow them;                           *)
(*  - build_config is defined outside this file: has_host_disp leaves      *)
(*    open whether it carries an attribute build_host_dispatcher besides   *)
(*    build_farm_host_dispatcher.                                          *)
(***************************************************************************)
EXTENDS Integers, Sequences, FiniteSets, TLC

\* ------------------------------------------------------------------ bounds
MaxPolls == 3      \* describe-fpga-images queries explored per run
MaxTars == 2       \* .tar files the to_aws directory may hold
MaxRand == 2       \* distinct random suffixes drawn for global_append

\* --------------------------------------------------------- program values
ExitCodes == {0, 1, 2}
BuildNames == {"buildA", "buildB"}
GlobalIds == {"agfi-1", "agfi-2"}
ImageId == "afi-1"
HostString == "buildhost"
\* State.Code values of describe-fpga-images
ImageStates == {"pending", "available", "failed", "unavailable"}

FailedTitle == "FireSim FPGA Build Failed"
CompletedTitle == "FireSim FPGA Build Completed"

\* the two dispatcher attributes of build_config the code names
FarmDispatcher == "build_farm_host_dispatcher"
HostDispatcher == "build_host_dispatcher"
Dispatchers == {FarmDispatcher, HostDispatcher}

NoValue == "unset"

\* pipeline instances that stage into the same bucket, and the host strings
\* (env.host_string) they may run under
JobIds == {"job1", "job2"}
JobHosts == {HostString, "buildhost2"}

VARIABLES
    pc,             \* position of the single thread of control
    bypass,         \* argument of build_bitstream
    is_local,       \* build_farm_host_dispatcher.is_local
    has_host_disp,  \* whether build_config has an attribute build_host_dispatcher
    afiname,        \* build_config.name
    post_build_hook,\* build_config.post_build_hook is set
    log,            \* commands executed so far, in order
    failed_cmd,     \* first command that returned a non-zero exit code
    cl_dir,         \* "local" / "remote"
    vivado_result,  \* return code of build-bitstream.sh
    to_aws,         \* .tar files present in the to_aws directory
    tarfile,        \* files.split()[-1]
    s3_tarfile,     \* staged key: tarfile + global_append
    s3,             \* keys present in the staging bucket under dcp/
    requests,       \* create-fpga-image requests: the key each one names
    ids,            \* ids_as_dict of the submission
    imagestate,     \* state of the conversion job at the service
    checkstate,     \* last status the poll loop observed
    polls,          \* describe-fpga-images queries made
    notifications,  \* titles passed to send_firesim_notification
    released,       \* release calls per dispatcher attribute
    hwdb,           \* writes to built-hwdb-entries/
    afi_ret,        \* value returned by aws_create_afi
    retval,         \* value returned by build_bitstream
    exc,            \* exception that escaped build_bitstream
    failed_calls,   \* best-effort calls that failed: a notification title,
                    \* "copy_afi_to_all_regions" or "post_build_hook"
    jobs,           \* concurrent pipeline instances at their staging steps
    bucket,         \* shared staging bucket: which job's artifact a key holds
    jreqs           \* image-creation requests of the concurrent instances

vars == <<pc, bypass, is_local, has_host_disp, afiname, post_build_hook, log,
          failed_cmd, cl_dir, vivado_result, to_aws, tarfile, s3_tarfile, s3,
          requests, ids, imagestate, checkstate, polls, notifications,
          released, hwdb, afi_ret, retval, exc, failed_calls, jobs, bucket,
          jreqs>>

\* ----------------------------------------------------------------- helpers
\* fabric run()/local(): the command is executed and its exit code recorded
Ran(cmds) == log' = log \o cmds

FirstFailure(cmd, rc) ==
    failed_cmd' = IF failed_cmd = "none" /\ rc # 0 THEN cmd ELSE failed_cmd

\* `ls *.tar` lists the directory in ascending name order
RECURSIVE ls(_)
ls(dir) ==
    IF dir = {} THEN <<>>
    ELSE LET m == CHOOSE x \in dir : \A y \in dir : x <= y
         IN  <<m>> \o ls(dir \ {m})

Init ==
    /\ pc = "replace_rtl"
    /\ bypass \in BOOLEAN
    /\ is_local \in BOOLEAN
    /\ has_host_disp \in BOOLEAN
    /\ afiname \in BuildNames
    /\ post_build_hook \in BOOLEAN
    /\ log = <<>>
    /\ failed_cmd = "none"
    /\ cl_dir = NoValue
    /\ vivado_result = 0
    /\ to_aws = {}
    /\ tarfile = 0
    /\ s3_tarfile = <<>>
    /\ s3 = {}
    /\ requests = <<>>
    /\ ids = [FpgaImageGlobalId |-> NoValue, FpgaImageId |-> NoValue]
    /\ imagestate = "none"
    /\ checkstate = NoValue
    /\ polls = 0
    /\ notifications = <<>>
    /\ released = [d \in Dispatchers |-> 0]
    /\ hwdb = <<>>
    /\ afi_ret = NoValue
    /\ retval = NoValue
    /\ exc = "none"
    /\ failed_calls = {}
    /\ jobs = [j \in JobIds |-> [pc |-> "ls", tar |-> 0, host |-> NoValue,
                                 rnd |-> 0, key |-> <<>>]]
    /\ bucket = {}
    /\ jreqs = {}

staging == <<jobs, bucket, jreqs>>
cfg == <<bypass, is_local, has_host_disp, afiname, post_build_hook>>
afi_vars == <<to_aws, tarfile, s3_tarfile, s3, requests, ids, imagestate,
              checkstate, polls, hwdb, afi_ret>>
outcome == <<notifications, released, retval, exc>>

\* F1BitBuilder.replace_rtl: run(make replace-rtl); the result is discarded
replace_rtl ==
    /\ pc = "replace_rtl"
    /\ \E rc \in ExitCodes :
          /\ Ran(<<"pwd", "make replace-rtl">>)
          /\ FirstFailure("make replace-rtl", rc)
    /\ pc' = "build_driver"
    /\ UNCHANGED <<staging, failed_calls, cfg, cl_dir, vivado_result, afi_vars, outcome>>

\* F1BitBuilder.build_driver: run(make driver); the result is discarded
build_driver ==
    /\ pc = "build_driver"
    /\ \E rc \in ExitCodes :
          /\ Ran(<<"pwd", "make driver">>)
          /\ FirstFailure("make driver", rc)
    /\ pc' = "build_bitstream"
    /\ UNCHANGED <<staging, failed_calls, cfg, cl_dir, vivado_result, afi_vars, outcome>>

\* build_config.build_farm_host_dispatcher.release_build_farm_host()
release_build_farm_host ==
    /\ released' = [released EXCEPT ![FarmDispatcher] = @ + 1]
    /\ Ran(<<"release_build_farm_host">>)

\* variant: the bypass path also reports the build as failed
build_bitstream_bypass_Mut ==
    /\ pc = "build_bitstream"
    /\ bypass
    /\ release_build_farm_host
    /\ notifications' = Append(notifications, FailedTitle)
    /\ retval' = "None"
    /\ pc' = "returned"
    /\ UNCHANGED <<staging, failed_calls, cfg, failed_cmd, cl_dir, vivado_result, afi_vars, exc>>

\* build_bitstream(bypass=True): release the host and return
build_bitstream_bypass ==
    /\ pc = "build_bitstream"
    /\ bypass
    /\ release_build_farm_host
    /\ retval' = "None"
    /\ pc' = "returned"
    /\ UNCHANGED <<staging, failed_calls, cfg, failed_cmd, cl_dir, vivado_result, afi_vars,
                   notifications, exc>>

\* awstools.send_firesim_notification: fire-and-forget; a notification that
\* cannot be delivered is recorded and the call returns to its caller
send_firesim_notification(title) ==
    /\ notifications' = Append(notifications, title)
    /\ \E delivered \in BOOLEAN :
          failed_calls' = IF delivered THEN failed_calls
                          ELSE failed_calls \cup {title}

\* awstools.afitools.copy_afi_to_all_regions: best effort; a copy that
\* fails is recorded and the call returns to its caller
copy_afi_to_all_regions ==
    /\ Ran(<<"copy_afi_to_all_regions">>)
    /\ \E copied \in BOOLEAN :
          failed_calls' = IF copied THEN failed_calls
                          ELSE failed_calls \cup {"copy_afi_to_all_regions"}

\* on_build_failure(): notify, then release through build_host_dispatcher.
\* The attribute lookup raises AttributeError when build_config has no
\* attribute of that name.
on_build_failure ==
    /\ send_firesim_notification(FailedTitle)
    /\ IF has_host_disp
       THEN /\ released' = [released EXCEPT ![HostDispatcher] = @ + 1]
            /\ Ran(<<"notify Failed", "release_build_host">>)
            /\ retval' = "None"
            /\ exc' = exc
            /\ pc' = "returned"
       ELSE /\ Ran(<<"notify Failed">>)
            /\ exc' = "AttributeError"
            /\ pc' = "raised"
            /\ UNCHANGED <<released, retval>>

\* build_bitstream, not bypassed: results directory and the generated RTL
bb_results_dir ==
    /\ pc = "build_bitstream"
    /\ ~bypass
    /\ \E rc1, rc2 \in ExitCodes :
          /\ Ran(<<"pwd", "mkdir results", "cp FireSim-generated.sv">>)
          /\ failed_cmd' = IF failed_cmd # "none" THEN failed_cmd
                           ELSE IF rc1 # 0 THEN "mkdir results"
                           ELSE IF rc2 # 0 THEN "cp FireSim-generated.sv"
                           ELSE "none"
    /\ pc' = "cl_dir"
    /\ UNCHANGED <<staging, failed_calls, cfg, cl_dir, vivado_result, afi_vars, outcome>>

\* is_local: cl_dir is the local CL_DIR and nothing is copied
bb_cl_dir_local ==
    /\ pc = "cl_dir"
    /\ is_local
    /\ cl_dir' = "local"
    /\ pc' = "copy_script"
    /\ UNCHANGED <<staging, failed_calls, cfg, log, failed_cmd, vivado_result, afi_vars, outcome>>

\* not is_local: aws-fpga and the design's CL_DIR are rsynced to the host
bb_remote_setup ==
    /\ pc = "cl_dir"
    /\ ~is_local
    /\ \E rc \in ExitCodes :
          /\ Ran(<<"pwd", "mkdir platform", "rsync aws-fpga", "rsync cl_dir">>)
          /\ FirstFailure("mkdir platform", rc)
    /\ cl_dir' = "remote"
    /\ pc' = "copy_script"
    /\ UNCHANGED <<staging, failed_calls, cfg, vivado_result, afi_vars, outcome>>

\* rsync build-bitstream.sh into cl_dir
bb_copy_script ==
    /\ pc = "copy_script"
    /\ Ran(<<"rsync build-bitstream.sh">>)
    /\ pc' = "vivado"
    /\ UNCHANGED <<staging, failed_calls, cfg, failed_cmd, cl_dir, vivado_result, afi_vars, outcome>>

\* variant: the results are copied back only after a successful synthesis
bb_vivado_Mut ==
    /\ pc = "vivado"
    /\ \E rc \in ExitCodes :
          /\ vivado_result' = rc
          /\ Ran(<<"build-bitstream.sh">>)
          /\ FirstFailure("build-bitstream.sh", rc)
          /\ pc' = IF rc = 0 THEN "copy_back" ELSE "check_vivado"
    /\ UNCHANGED <<staging, failed_calls, cfg, cl_dir, afi_vars, outcome>>

\* vivado_result = run(build-bitstream.sh).return_code
bb_vivado ==
    /\ pc = "vivado"
    /\ \E rc \in ExitCodes :
          /\ vivado_result' = rc
          /\ Ran(<<"build-bitstream.sh">>)
          /\ FirstFailure("build-bitstream.sh", rc)
    /\ pc' = "copy_back"
    /\ UNCHANGED <<staging, failed_calls, cfg, cl_dir, afi_vars, outcome>>

\* rsync the build results back into results-build/
bb_copy_back ==
    /\ pc = "copy_back"
    /\ Ran(<<"rsync results">>)
    /\ pc' = "check_vivado"
    /\ UNCHANGED <<staging, failed_calls, cfg, failed_cmd, cl_dir, vivado_result, afi_vars, outcome>>

\* variant: only exit codes above 1 count as a failed synthesis
VivadoFailed_Mut(rc) == rc > 1

VivadoFailed(rc) == rc # 0

\* if vivado_result != 0: on_build_failure(); return
bb_vivado_failed ==
    /\ pc = "check_vivado"
    /\ VivadoFailed(vivado_result)
    /\ on_build_failure
    /\ UNCHANGED <<staging, cfg, failed_cmd, cl_dir, vivado_result, afi_vars>>

\* variant: the host is given back as soon as the synthesis has succeeded
bb_call_aws_create_afi_Mut ==
    /\ pc = "check_vivado"
    /\ ~VivadoFailed(vivado_result)
    /\ release_build_farm_host
    /\ pc' = "afi_tags"
    /\ UNCHANGED <<staging, failed_calls, cfg, failed_cmd, cl_dir,
                   vivado_result, afi_vars, notifications, retval, exc>>

\* otherwise self.aws_create_afi() is entered
bb_call_aws_create_afi ==
    /\ pc = "check_vivado"
    /\ ~VivadoFailed(vivado_result)
    /\ pc' = "afi_tags"
    /\ UNCHANGED <<staging, failed_calls, cfg, log, failed_cmd, cl_dir, vivado_result, afi_vars,
                   outcome>>

\* an exception leaves aws_create_afi and build_bitstream: nothing catches it
Raise(e) == pc' = "raised" /\ exc' = e

\* aws_create_afi: deploy dir, tags and the git commands.  The tags are
\* taken within the length the asserts allow (at most 255 characters).
afi_tags ==
    /\ pc = "afi_tags"
    /\ Ran(<<"pwd", "git status", "git rev-parse">>)
    /\ pc' = "afi_ls"
    /\ UNCHANGED <<staging, failed_calls, cfg, failed_cmd, cl_dir, vivado_result, afi_vars, outcome>>

\* variant: the first listed file is taken
PickTar_Mut(files) == files[1]

\* tarfile = files.split()[-1]
PickTar(files) == files[Len(files)]

\* variant: the host string is left out of the staged name
StagedKey_Mut(tar, host, rnd) == <<tar, rnd>>

\* s3_tarfile = tarfile + global_append, where global_append is
\* "-" + env.host_string + "-" + ten random characters + ".tar"
StagedKey(tar, host, rnd) == <<tar, host, rnd>>

\* files = local('ls *.tar'); an empty listing makes [-1] raise IndexError
afi_ls ==
    /\ pc = "afi_ls"
    /\ \E dir \in SUBSET (1..MaxTars), rnd \in 1..MaxRand :
          /\ to_aws' = dir
          /\ Ran(<<"ls *.tar">>)
          /\ FirstFailure("ls *.tar", IF dir = {} THEN 2 ELSE 0)
          /\ IF ls(dir) = <<>>
             THEN /\ Raise("IndexError")
                  /\ UNCHANGED <<tarfile, s3_tarfile>>
             ELSE /\ tarfile' = PickTar(ls(dir))
                  /\ s3_tarfile' = StagedKey(PickTar(ls(dir)), HostString, rnd)
                  /\ pc' = "afi_upload"
                  /\ exc' = exc
    /\ UNCHANGED <<staging, failed_calls, cfg, cl_dir, vivado_result, s3, requests, ids, imagestate,
                   checkstate, polls, hwdb, afi_ret, notifications, released,
                   retval>>

\* variant: the image-creation request is made before the upload
afi_upload_Mut ==
    /\ pc = "afi_upload"
    /\ \E rc \in ExitCodes :
          /\ Ran(<<"aws ec2 create-fpga-image", "aws s3 cp">>)
          /\ FirstFailure("aws s3 cp", rc)
          /\ s3' = IF rc = 0 THEN s3 \cup {s3_tarfile} ELSE s3
    /\ requests' = Append(requests, s3_tarfile)
    /\ \E g \in GlobalIds :
          /\ ids' = [FpgaImageGlobalId |-> g, FpgaImageId |-> ImageId]
          /\ imagestate' = "pending"
          /\ checkstate' = "pending"
    /\ pc' = "afi_poll"
    /\ UNCHANGED <<staging, failed_calls, cfg, cl_dir, vivado_result, to_aws, tarfile, s3_tarfile,
                   polls, hwdb, afi_ret, outcome>>

\* aws s3 cp tarfile s3://bucket/dcp/s3_tarfile; the result is discarded
afi_upload ==
    /\ pc = "afi_upload"
    /\ \E rc \in ExitCodes :
          /\ Ran(<<"aws s3 cp">>)
          /\ FirstFailure("aws s3 cp", rc)
          /\ s3' = IF rc = 0 THEN s3 \cup {s3_tarfile} ELSE s3
    /\ pc' = "afi_submit"
    /\ UNCHANGED <<staging, failed_calls, cfg, cl_dir, vivado_result, to_aws, tarfile, s3_tarfile,
                   requests, ids, imagestate, checkstate, polls, hwdb, afi_ret,
                   outcome>>

\* aws ec2 create-fpga-image ...; json.loads of its output.  A command that
\* exits non-zero prints no JSON and json.loads raises.
afi_submit ==
    /\ pc = "afi_submit"
    /\ Ran(<<"aws ec2 create-fpga-image">>)
    /\ requests' = Append(requests, s3_tarfile)
    /\ \/ \E g \in GlobalIds :
             /\ ids' = [FpgaImageGlobalId |-> g, FpgaImageId |-> ImageId]
             /\ imagestate' = "pending"
             /\ checkstate' = "pending"
             /\ pc' = "afi_poll"
             /\ UNCHANGED <<failed_cmd, exc>>
       \/ \E rc \in ExitCodes \ {0} :
             /\ FirstFailure("aws ec2 create-fpga-image", rc)
             /\ Raise("JSONDecodeError")
             /\ UNCHANGED <<ids, imagestate, checkstate>>
    /\ UNCHANGED <<staging, failed_calls, cfg, cl_dir, vivado_result, to_aws, tarfile, s3_tarfile, s3,
                   polls, hwdb, afi_ret, notifications, released, retval>>

\* variant: the loop goes on until the image is available
KeepPolling_Mut(cs) == cs # "available"

\* while checkstate == "pending"
KeepPolling(cs) == cs = "pending"

\* variant: describing a pending image cancels its conversion job
afi_poll_Mut ==
    /\ pc = "afi_poll"
    /\ KeepPolling(checkstate)
    /\ polls < MaxPolls \/ imagestate # "pending"
    /\ Ran(<<"aws ec2 describe-fpga-images">>)
    /\ imagestate' = IF imagestate = "pending" THEN "failed" ELSE imagestate
    /\ checkstate' = imagestate'
    /\ polls' = polls + 1
    /\ UNCHANGED <<pc, staging, failed_calls, cfg, failed_cmd, cl_dir,
                   vivado_result, to_aws, tarfile, s3_tarfile, s3, requests,
                   ids, hwdb, afi_ret, outcome>>

\* one iteration: describe-fpga-images, read State.Code, sleep
afi_poll ==
    /\ pc = "afi_poll"
    /\ KeepPolling(checkstate)
    /\ polls < MaxPolls \/ imagestate # "pending"
    /\ Ran(<<"aws ec2 describe-fpga-images">>)
    /\ checkstate' = imagestate
    /\ polls' = polls + 1
    /\ UNCHANGED <<pc, staging, failed_calls, cfg, failed_cmd, cl_dir, vivado_result, to_aws, tarfile,
                   s3_tarfile, s3, requests, ids, imagestate, hwdb, afi_ret,
                   outcome>>

\* the image service finishes the conversion job on its own
ImageStateChange ==
    /\ imagestate = "pending"
    /\ imagestate' \in ImageStates \ {"pending"}
    /\ UNCHANGED <<pc, staging, failed_calls, cfg, log, failed_cmd, cl_dir, vivado_result, to_aws,
                   tarfile, s3_tarfile, s3, requests, ids, checkstate, polls,
                   hwdb, afi_ret, outcome>>

\* if checkstate == "available"
IsAvailable(cs) == cs = "available"

\* variant: True is returned whatever the final state
aws_create_afi_result_Mut(cs) == "True"

\* return True / return None
aws_create_afi_result(cs) == IF IsAvailable(cs) THEN "True" ELSE "None"

\* variant: a failed copy makes aws_create_afi give up and return None
afi_distribute_Mut ==
    /\ pc = "afi_poll"
    /\ ~KeepPolling(checkstate)
    /\ IsAvailable(checkstate)
    /\ copy_afi_to_all_regions
    /\ IF "copy_afi_to_all_regions" \in failed_calls'
       THEN pc' = "afi_returned" /\ afi_ret' = "None"
       ELSE pc' = "afi_notify" /\ afi_ret' = afi_ret
    /\ UNCHANGED <<staging, cfg, failed_cmd, cl_dir, vivado_result, to_aws,
                   tarfile, s3_tarfile, s3, requests, ids, imagestate,
                   checkstate, polls, hwdb, outcome>>

\* copy_afi_to_all_regions(afi)
afi_distribute ==
    /\ pc = "afi_poll"
    /\ ~KeepPolling(checkstate)
    /\ IsAvailable(checkstate)
    /\ copy_afi_to_all_regions
    /\ pc' = "afi_notify"
    /\ UNCHANGED <<staging, cfg, failed_cmd, cl_dir, vivado_result, afi_vars,
                   outcome>>

\* variant: the hook is started right after the notification
afi_notify_Mut ==
    /\ pc = "afi_notify"
    /\ send_firesim_notification(CompletedTitle)
    /\ Ran(<<"notify Completed">>)
    /\ pc' = "afi_hook"
    /\ UNCHANGED <<staging, cfg, failed_cmd, cl_dir, vivado_result, afi_vars,
                   released, retval, exc>>

\* send_firesim_notification("FireSim FPGA Build Completed", ...)
afi_notify ==
    /\ pc = "afi_notify"
    /\ send_firesim_notification(CompletedTitle)
    /\ Ran(<<"notify Completed">>)
    /\ pc' = "afi_hwdb"
    /\ UNCHANGED <<staging, cfg, failed_cmd, cl_dir, vivado_result, afi_vars, released,
                   retval, exc>>

\* variant: the AFI id is written in place of the AGFI
hwdb_entry_Mut(name, i) == [file |-> name, agfi |-> i.FpgaImageId]

\* agfi_entry, written to built-hwdb-entries/<afiname>
hwdb_entry(name, i) == [file |-> name, agfi |-> i.FpgaImageGlobalId]

afi_hwdb ==
    /\ pc = "afi_hwdb"
    /\ Ran(<<"mkdir built-hwdb-entries", "write hwdb entry">>)
    /\ hwdb' = Append(hwdb, hwdb_entry(afiname, ids))
    /\ pc' = "afi_hook"
    /\ UNCHANGED <<staging, failed_calls, cfg, failed_cmd, cl_dir, vivado_result, to_aws, tarfile,
                   s3_tarfile, s3, requests, ids, imagestate, checkstate, polls,
                   afi_ret, outcome>>

\* variant: a hook that exits non-zero aborts the run
afi_post_build_hook_Mut ==
    /\ pc = "afi_hook"
    /\ post_build_hook
    /\ \E rc \in ExitCodes :
          /\ Ran(<<"post_build_hook">>)
          /\ FirstFailure("post_build_hook", rc)
          /\ failed_calls' = IF rc = 0 THEN failed_calls
                             ELSE failed_calls \cup {"post_build_hook"}
          /\ IF rc = 0 THEN pc' = "afi_return" /\ exc' = exc
             ELSE pc' = "raised" /\ exc' = "SystemExit"
    /\ UNCHANGED <<staging, cfg, cl_dir, vivado_result, afi_vars,
                   notifications, released, retval>>

\* if build_config.post_build_hook: local(hook results_dir)
afi_post_build_hook ==
    /\ pc = "afi_hook"
    /\ post_build_hook
    /\ \E rc \in ExitCodes :
          /\ Ran(<<"post_build_hook">>)
          /\ FirstFailure("post_build_hook", rc)
          /\ failed_calls' = IF rc = 0 THEN failed_calls
                             ELSE failed_calls \cup {"post_build_hook"}
    /\ pc' = "afi_return"
    /\ UNCHANGED <<staging, cfg, cl_dir, vivado_result, afi_vars, outcome>>

\* return True
afi_return_true ==
    /\ \/ pc = "afi_return"
       \/ pc = "afi_hook" /\ ~post_build_hook
    /\ afi_ret' = aws_create_afi_result(checkstate)
    /\ pc' = "afi_returned"
    /\ UNCHANGED <<staging, failed_calls, cfg, log, failed_cmd, cl_dir, vivado_result, to_aws, tarfile,
                   s3_tarfile, s3, requests, ids, imagestate, checkstate, polls,
                   hwdb, outcome>>

\* else: return None
afi_return_none ==
    /\ pc = "afi_poll"
    /\ ~KeepPolling(checkstate)
    /\ ~IsAvailable(checkstate)
    /\ afi_ret' = aws_create_afi_result(checkstate)
    /\ pc' = "afi_returned"
    /\ UNCHANGED <<staging, failed_calls, cfg, log, failed_cmd, cl_dir, vivado_result, to_aws, tarfile,
                   s3_tarfile, s3, requests, ids, imagestate, checkstate, polls,
                   hwdb, outcome>>

\* if not self.aws_create_afi(): on_build_failure(); return
bb_afi_failed ==
    /\ pc = "afi_returned"
    /\ afi_ret # "True"
    /\ on_build_failure
    /\ UNCHANGED <<staging, cfg, failed_cmd, cl_dir, vivado_result, afi_vars>>

\* self.build_config.build_farm_host_dispatcher.release_build_farm_host()
bb_release ==
    /\ pc = "afi_returned"
    /\ afi_ret = "True"
    /\ release_build_farm_host
    /\ retval' = "None"
    /\ pc' = "returned"
    /\ UNCHANGED <<staging, failed_calls, cfg, failed_cmd, cl_dir, vivado_result, afi_vars,
                   notifications, exc>>

\* the steps of the build job itself
\* ------------------------------------------------------------------------
\* Two runs of aws_create_afi, each in its own process, staging into the same
\* bucket: the listing, the upload and the request of lines 262-273 for each
\* job.  Each job has its own to_aws directory, host string and random draw.

\* global_append, 'ls *.tar' and the choice of the tarfile, for job j
job_ls(j) ==
    /\ jobs[j].pc = "ls"
    /\ \E dir \in SUBSET (1..MaxTars), host \in JobHosts, rnd \in 1..MaxRand :
          jobs' = [jobs EXCEPT ![j] =
                     IF ls(dir) = <<>>
                     THEN [@ EXCEPT !.pc = "raised"]
                     ELSE [pc |-> "upload", tar |-> PickTar(ls(dir)),
                           host |-> host, rnd |-> rnd,
                           key |-> StagedKey(PickTar(ls(dir)), host, rnd)]]
    /\ UNCHANGED <<bucket, jreqs>>

\* aws s3 cp of job j: an object of the same name is replaced
job_upload(j) ==
    /\ jobs[j].pc = "upload"
    /\ \E rc \in ExitCodes :
          bucket' = IF rc = 0
                    THEN {o \in bucket : o.key # jobs[j].key}
                            \cup {[key |-> jobs[j].key, owner |-> j]}
                    ELSE bucket
    /\ jobs' = [jobs EXCEPT ![j].pc = "submit"]
    /\ UNCHANGED jreqs

\* whose upload the object of that name is, if there is one
StagedBy(key) ==
    IF \E o \in bucket : o.key = key
    THEN (CHOOSE o \in bucket : o.key = key).owner
    ELSE "nobody"

\* aws ec2 create-fpga-image of job j with Key=dcp/<s3_tarfile>
job_submit(j) ==
    /\ jobs[j].pc = "submit"
    /\ jreqs' = jreqs \cup {[job |-> j, key |-> jobs[j].key,
                             content |-> StagedBy(jobs[j].key)]}
    /\ jobs' = [jobs EXCEPT ![j].pc = "done"]
    /\ UNCHANGED bucket

run_vars == <<pc, cfg, log, failed_cmd, cl_dir, vivado_result, afi_vars,
              outcome, failed_calls>>

StagingNext ==
    \E j \in JobIds :
        /\ \/ job_ls(j)
           \/ job_upload(j)
           \/ job_submit(j)
        /\ UNCHANGED run_vars

StagingSpec == Init /\ [][StagingNext]_vars

ProgramStep ==
    \/ replace_rtl
    \/ build_driver
    \/ build_bitstream_bypass
    \/ bb_results_dir
    \/ bb_cl_dir_local
    \/ bb_remote_setup
    \/ bb_copy_script
    \/ bb_vivado
    \/ bb_copy_back
    \/ bb_vivado_failed
    \/ bb_call_aws_create_afi
    \/ afi_tags
    \/ afi_ls
    \/ afi_upload
    \/ afi_submit
    \/ afi_poll
    \/ afi_distribute
    \/ afi_notify
    \/ afi_hwdb
    \/ afi_post_build_hook
    \/ afi_return_true
    \/ afi_return_none
    \/ bb_afi_failed
    \/ bb_release

Next ==
    \/ ProgramStep
    \/ ImageStateChange

Spec == Init /\ [][Next]_vars

\* Every command the program issues returns, so the program takes its next
\* step whenever it has one, and the image service finishes every conversion
\* job it has accepted.
FairSpec == Spec /\ WF_vars(ProgramStep) /\ WF_vars(ImageStateChange)

\* --------------------------------------------------------------- properties
Did(cmd) == \E i \in DOMAIN log : log[i] = cmd
Count(cmd) == Cardinality({i \in DOMAIN log : log[i] = cmd})
Before(a, b) ==
    \E i \in DOMAIN log :
        log[i] = a /\ \E j \in (i + 1)..Len(log) : log[j] = b

\* the call of build_bitstream has ended, by return or by an exception
Ended == pc \in {"returned", "raised"}

\* C1: whenever a call of build_bitstream has ended (bypass or not, synthesis
\* failed or not, conversion available or not) the job's build host handle,
\* build_farm_host_dispatcher, has been released exactly once and no other
\* handle has been released in its place.
C1_ReleasedExactlyOnce ==
    Ended => released[FarmDispatcher] = 1 /\ released[HostDispatcher] = 0

\* C2: a non-bypass run that has ended has sent exactly one notification, a
\* bypass run has sent none, and no run ever sends more than one.
C2_OneNotification ==
    /\ Len(notifications) <= 1
    /\ Ended /\ ~bypass => Len(notifications) = 1
    /\ Ended /\ bypass => Len(notifications) = 0

\* stage each command belongs to, in the order of the pipeline
StageNo(cmd) ==
    CASE cmd = "make replace-rtl" -> 1
      [] cmd = "make driver" -> 2
      [] cmd \in {"mkdir results", "cp FireSim-generated.sv", "mkdir platform",
                  "rsync aws-fpga", "rsync cl_dir", "rsync build-bitstream.sh",
                  "build-bitstream.sh", "rsync results"} -> 3
      [] cmd = "ls *.tar" -> 4
      [] cmd \in {"aws s3 cp", "aws ec2 create-fpga-image"} -> 5
      [] cmd = "aws ec2 describe-fpga-images" -> 6
      [] cmd = "copy_afi_to_all_regions" -> 7
      [] cmd = "notify Completed" -> 8
      [] cmd \in {"mkdir built-hwdb-entries", "write hwdb entry",
                  "post_build_hook"} -> 9
      [] OTHER -> 0

\* C3 as stated: once the command of some stage has returned a non-zero exit
\* code, no command of a later stage is ever executed.
C3_AnyStageFailureStops ==
    failed_cmd # "none" =>
        \A i \in DOMAIN log : StageNo(log[i]) <= StageNo(failed_cmd)

\* C3 amended: a non-zero exit code of build-bitstream.sh sends the run
\* straight to the failure handler, and after it the artifact is never listed
\* or uploaded, no image-creation request is made, the status is never polled
\* and no later stage runs.
C3_SynthesisFailureStops ==
    /\ [](vivado_result # 0 =>
            /\ \A i \in DOMAIN log : StageNo(log[i]) <= 3
            /\ s3 = {} /\ requests = <<>> /\ polls = 0 /\ hwdb = <<>>
            /\ imagestate = "none")
    /\ [][pc = "check_vivado" /\ vivado_result # 0 =>
            /\ pc' \in {"returned", "raised"}
            /\ notifications' = Append(notifications, FailedTitle)]_vars

C3_Witness ==
    /\ Ended
    /\ vivado_result = 2
    /\ Did("rsync results")
    /\ notifications = <<FailedTitle>>

\* C4 as stated: unless the directory holds exactly one .tar file, nothing is
\* uploaded and no image-creation request is made.
C4_AmbiguityFails ==
    Did("ls *.tar") /\ Cardinality(to_aws) # 1 =>
        /\ ~Did("aws s3 cp") /\ s3 = {}
        /\ ~Did("aws ec2 create-fpga-image") /\ requests = <<>>

\* C4 amended: with at least one .tar file the last one `ls *.tar` lists is
\* the only file ever uploaded and named in the image-creation request (with
\* exactly one file, that file); with none, IndexError leaves aws_create_afi
\* before any upload or image-creation request.
C4_LastListedIsSubmitted ==
    Did("ls *.tar") =>
        IF to_aws = {}
        THEN /\ pc = "raised" /\ exc = "IndexError"
             /\ ~Did("aws s3 cp") /\ s3 = {}
             /\ ~Did("aws ec2 create-fpga-image") /\ requests = <<>>
        ELSE /\ tarfile \in to_aws
             /\ \A t \in to_aws : t <= tarfile
             /\ s3_tarfile[1] = tarfile
             /\ \A k \in s3 : k = s3_tarfile
             /\ \A i \in DOMAIN requests : requests[i] = s3_tarfile
             /\ pc # "afi_upload" => Did("aws s3 cp")

C4_Witness ==
    /\ Cardinality(to_aws) = 2
    /\ tarfile = 2
    /\ s3 # {}
    /\ requests # <<>>

\* one of the failure kinds has occurred in this run
FailureHappened ==
    \/ failed_cmd # "none"
    \/ Did("ls *.tar") /\ Cardinality(to_aws) # 1
    \/ checkstate \in ImageStates \ {"pending", "available"}

ReachedDone == pc = "returned" /\ ~bypass /\ afi_ret = "True"
ReachedFailed == pc = "returned" /\ ~bypass /\ afi_ret # "True"

\* C6 as stated: the value returned by a run that reached Done is not the
\* value a failed run returns (None), and it carries the image identifier.
C6_ResultDistinguishes ==
    ReachedDone => retval # "None" /\ retval = ids.FpgaImageGlobalId

\* C6 amended: build_bitstream returns None both after success and after
\* failure; the outcome shows only in aws_create_afi's own result (True
\* exactly when the image became available, None otherwise), in the kind of
\* notification sent and in the registry entry, which carries the identifier.
C6_ReturnsNoneEitherWay ==
    /\ pc = "returned" => retval = "None"
    /\ afi_ret # NoValue => (afi_ret = "True" <=> checkstate = "available")
    /\ afi_ret # NoValue => afi_ret \in {"True", "None"}
    /\ ReachedDone =>
          /\ notifications = <<CompletedTitle>>
          /\ Len(hwdb) = 1 /\ hwdb[1].agfi = ids.FpgaImageGlobalId
    /\ ReachedFailed => notifications = <<FailedTitle>> /\ hwdb = <<>>

C6_Witness ==
    /\ ReachedDone
    /\ retval = "None"
    /\ hwdb # <<>>

\* C7: a status query is made only while the last observed status is
\* pending and the loop is left only on a non-pending status, after which no
\* further query is made; on available the next step is distribution and the
\* run ends as a success; on any other status there is no distribution, no
\* success notification and no registry write, and the failure handler runs.
C7_PollLoop ==
    /\ [][polls' # polls =>
            /\ checkstate = "pending"
            /\ polls' = polls + 1
            /\ checkstate' = imagestate]_vars
    /\ [][pc = "afi_poll" /\ checkstate = "pending" => pc' = "afi_poll"]_vars
    /\ [][(checkstate # NoValue /\ checkstate # "pending") =>
            polls' = polls /\ checkstate' = checkstate]_vars
    /\ [][pc = "afi_poll" /\ checkstate = "available" =>
            pc' = "afi_notify" /\ log' = Append(log, "copy_afi_to_all_regions")]_vars
    /\ [](pc = "afi_poll" /\ checkstate = "pending" /\ polls < MaxPolls =>
            ENABLED afi_poll)
    /\ [](Ended /\ checkstate = "available" =>
            /\ pc = "returned" /\ released[FarmDispatcher] = 1
            /\ notifications = <<CompletedTitle>>
            /\ Len(hwdb) = 1)
    /\ [](checkstate \in ImageStates \ {"pending", "available"} =>
            /\ ~Did("copy_afi_to_all_regions")
            /\ ~Did("notify Completed")
            /\ hwdb = <<>>
            /\ Ended => notifications = <<FailedTitle>>)

C7_Witness ==
    /\ polls >= 2
    /\ Count("aws ec2 describe-fpga-images") = polls
    /\ checkstate = "available"
    /\ pc = "returned"

\* C8: the registry is written at most once per run, only after the
\* conversion job was observed available, to the file named by the build
\* name and with the global image identifier the submission returned; a run
\* that was bypassed or ended in failure has written nothing.
C8_RegistryEntry ==
    /\ Len(hwdb) <= 1
    /\ Count("write hwdb entry") = Len(hwdb)
    /\ hwdb # <<>> =>
          /\ checkstate = "available"
          /\ hwdb[1].file = afiname
          /\ hwdb[1].agfi = ids.FpgaImageGlobalId
          /\ hwdb[1].agfi \in GlobalIds
          /\ Before("aws ec2 create-fpga-image", "write hwdb entry")
    /\ (\/ bypass
        \/ vivado_result # 0
        \/ exc # "none"
        \/ checkstate \in ImageStates \ {"pending", "available"}
        \/ \E i \in DOMAIN notifications : notifications[i] = FailedTitle)
          => hwdb = <<>>

C8_Witness ==
    /\ pc = "returned"
    /\ polls >= 1
    /\ hwdb = <<[file |-> "buildB", agfi |-> "agfi-2"]>>

\* commands that are executed at most once in a run
OnceCmds ==
    {"make replace-rtl", "make driver", "mkdir results",
     "cp FireSim-generated.sv", "mkdir platform", "rsync aws-fpga",
     "rsync cl_dir", "rsync build-bitstream.sh", "build-bitstream.sh",
     "rsync results", "ls *.tar", "aws s3 cp", "aws ec2 create-fpga-image",
     "copy_afi_to_all_regions", "notify Completed", "notify Failed",
     "mkdir built-hwdb-entries", "write hwdb entry", "post_build_hook",
     "release_build_farm_host", "release_build_host"}

\* one pass over the log from position i: `cur` is the stage of the last
\* staged command and `seen` the commands met so far.  Each staged command
\* belongs to the current stage or to the one right after it, and a command
\* of OnceCmds is not met twice.
RECURSIVE InOrderFrom(_, _, _)
InOrderFrom(i, cur, seen) ==
    IF i > Len(log) THEN TRUE
    ELSE LET k == StageNo(log[i])
         IN  /\ log[i] \in OnceCmds => log[i] \notin seen
             /\ k # 0 => k \in {cur, cur + 1}
             /\ InOrderFrom(i + 1, IF k = 0 THEN cur ELSE k, seen \cup {log[i]})

\* what must have come first: the make targets and the script before the
\* synthesis, the listing and the upload before the request, the request
\* before any poll, and the success steps in their order
StagePrecedence ==
    /\ Did("build-bitstream.sh") =>
          /\ Before("make replace-rtl", "make driver")
          /\ Before("make driver", "build-bitstream.sh")
          /\ Before("rsync build-bitstream.sh", "build-bitstream.sh")
    /\ Did("aws ec2 create-fpga-image") =>
          /\ Before("build-bitstream.sh", "ls *.tar")
          /\ Before("ls *.tar", "aws s3 cp")
          /\ Before("aws s3 cp", "aws ec2 create-fpga-image")
    /\ \A i \in DOMAIN log :
          log[i] = "aws ec2 describe-fpga-images" =>
             \E j \in 1..(i - 1) : log[j] = "aws ec2 create-fpga-image"
    /\ Did("write hwdb entry") =>
          /\ Before("aws ec2 describe-fpga-images", "copy_afi_to_all_regions")
          /\ Before("copy_afi_to_all_regions", "notify Completed")
          /\ Before("notify Completed", "write hwdb entry")

\* the commands of the log follow the stage order, no stage is entered
\* without the one before it, and none is repeated
StageOrder ==
    /\ InOrderFrom(1, 0, {})
    /\ StagePrecedence

\* the same walk, one step at a time: the log only grows, and each command a
\* step appends is of the stage of the last staged command before it or of
\* the stage right after, and is not a second copy of a command of OnceCmds
RECURSIVE LastStage(_, _)
LastStage(l, i) ==
    IF i = 0 THEN 0
    ELSE IF StageNo(l[i]) # 0 THEN StageNo(l[i])
    ELSE LastStage(l, i - 1)

StageOrderStep ==
    /\ Len(log') >= Len(log)
    /\ SubSeq(log', 1, Len(log)) = log
    /\ \A i \in (Len(log) + 1)..Len(log') :
          /\ log'[i] \in OnceCmds => \A j \in 1..(i - 1) : log'[j] # log'[i]
          /\ StageNo(log'[i]) # 0 =>
                StageNo(log'[i]) \in {LastStage(log', i - 1),
                                      LastStage(log', i - 1) + 1}

\* C9 as stated: the stages run in the fixed order, and synthesis never
\* starts before the design and platform files were bulk-copied to the host.
C9_OrderWithBulkCopy ==
    /\ StageOrder
    /\ Did("build-bitstream.sh") =>
          /\ Before("rsync aws-fpga", "build-bitstream.sh")
          /\ Before("rsync cl_dir", "build-bitstream.sh")

\* C9 amended: the stages run in the fixed order; the bulk copy of design and
\* platform files precedes synthesis when the build host is remote, and when
\* the host is local no bulk copy is made at all.
C9_OrderBulkCopyWhenRemote ==
    /\ [][StageOrderStep]_vars
    /\ [](StagePrecedence)
    /\ [](Did("build-bitstream.sh") /\ ~is_local =>
             /\ Before("rsync aws-fpga", "build-bitstream.sh")
             /\ Before("rsync cl_dir", "build-bitstream.sh")
             /\ cl_dir = "remote")
    /\ [](is_local =>
             /\ ~Did("rsync aws-fpga") /\ ~Did("rsync cl_dir")
             /\ cl_dir \in {NoValue, "local"})

C9_Witness ==
    /\ is_local
    /\ pc = "returned"
    /\ Did("build-bitstream.sh")
    /\ Did("write hwdb entry")
    /\ Did("release_build_farm_host")

\* C10: the call build_bitstream(bypass=True) is one step that releases the
\* job's host once and returns; it runs no command, copies nothing, submits
\* and polls nothing, sends no notification and writes no registry entry.
C10_BypassOnlyReleases ==
    /\ [][pc = "build_bitstream" /\ bypass =>
            /\ pc' = "returned"
            /\ released' = [released EXCEPT ![FarmDispatcher] = @ + 1]
            /\ log' = Append(log, "release_build_farm_host")
            /\ UNCHANGED <<notifications, hwdb, s3, requests, polls, imagestate,
                           checkstate, to_aws, cl_dir, exc>>]_vars
    /\ [](bypass =>
            /\ notifications = <<>> /\ hwdb = <<>> /\ s3 = {}
            /\ requests = <<>> /\ polls = 0 /\ imagestate = "none"
            /\ \A i \in DOMAIN log : StageNo(log[i]) <= 2
            /\ exc = "none")

C10_Witness ==
    /\ bypass
    /\ pc = "returned"
    /\ released[FarmDispatcher] = 1
    /\ log[Len(log)] = "release_build_farm_host"

\* C11: a notification that could not be delivered leaves the run as it
\* would have been: after a failed failure notification the job's host is
\* released once, and after a failed success notification the registry entry
\* is written and the run returns as a success with the host released once.
C11_NotifyFailureHarmless ==
    /\ Ended /\ FailedTitle \in failed_calls =>
          released[FarmDispatcher] = 1
    /\ Ended /\ CompletedTitle \in failed_calls =>
          /\ pc = "returned" /\ afi_ret = "True"
          /\ Len(hwdb) = 1
          /\ released[FarmDispatcher] = 1

\* C12: once the post-build hook has exited non-zero the success notification
\* and the registry entry stay as they are, no failure notification is ever
\* sent, and the run ends by a normal return with aws_create_afi's result
\* True and the job's host released exactly once.
C12_HookFailureKeepsSuccess ==
    /\ []("post_build_hook" \in failed_calls =>
            /\ checkstate = "available"
            /\ notifications = <<CompletedTitle>>
            /\ hwdb = <<hwdb_entry(afiname, ids)>>
            /\ exc = "none"
            /\ pc \in {"afi_return", "afi_returned", "returned"}
            /\ Ended =>
                  /\ pc = "returned" /\ afi_ret = "True"
                  /\ released[FarmDispatcher] = 1
                  /\ released[HostDispatcher] = 0)
    /\ [][pc = "afi_hook" /\ post_build_hook =>
            /\ pc' = "afi_return"
            /\ notifications' = notifications /\ hwdb' = hwdb]_vars

C12_Witness ==
    /\ pc = "returned"
    /\ "post_build_hook" \in failed_calls
    /\ failed_cmd = "post_build_hook"
    /\ released[FarmDispatcher] = 1

C15_PollingHasNoEffect ==
    /\ [][polls' # polls =>
            /\ imagestate' = imagestate
            /\ checkstate' = imagestate
            /\ <<requests, s3, ids>>' = <<requests, s3, ids>>
            /\ imagestate = "pending" =>
                  /\ pc' = "afi_poll"
                  /\ KeepPolling(checkstate')]_vars
    /\ [][imagestate' # imagestate /\ imagestate # "none" =>
            /\ imagestate = "pending"
            /\ imagestate' \in ImageStates \ {"pending"}
            /\ <<pc, log, polls, checkstate>>' =
                  <<pc, log, polls, checkstate>>]_vars

C15_Witness ==
    /\ polls >= 2
    /\ Count("aws ec2 describe-fpga-images") = polls
    /\ imagestate = "pending" /\ checkstate = "pending"
    /\ pc = "afi_poll"

\* the positions inside aws_create_afi, before it has returned
InAwsCreateAfi ==
    pc \in {"afi_tags", "afi_ls", "afi_upload", "afi_submit", "afi_poll",
            "afi_notify", "afi_hwdb", "afi_hook", "afi_return"}

NothingReleased == \A d \in Dispatchers : released[d] = 0

\* C17: in a run that is not bypassed and whose synthesis succeeded nothing
\* is released while aws_create_afi is running (upload, submission, polling)
\* nor while the last observed status is pending, and every release is made
\* after aws_create_afi has returned.
C17_HostHeldUntilAfiReturns ==
    /\ [](InAwsCreateAfi => NothingReleased)
    /\ [](checkstate = "pending" => NothingReleased)
    /\ [](~bypass /\ vivado_result = 0 /\ ~NothingReleased =>
             afi_ret # NoValue /\ checkstate \notin {NoValue, "pending"})
    /\ [][released' # released /\ ~bypass /\ vivado_result = 0 =>
             pc = "afi_returned" /\ afi_ret # NoValue]_vars

C17_Witness ==
    /\ pc = "returned" /\ ~bypass
    /\ released[FarmDispatcher] = 1
    /\ afi_ret = "True"
    /\ polls >= 2
    /\ s3_tarfile \in s3 /\ requests = <<s3_tarfile>>

\* C18: whatever exit code build-bitstream.sh returned, the next step copies
\* the results back, and in a run that is not bypassed the copy-back comes
\* before the failure notification and before any release.
C18_CopyBackAlways ==
    /\ [][pc = "vivado" => pc' = "copy_back"]_vars
    /\ [](Did("build-bitstream.sh") /\ pc # "copy_back" =>
             Count("rsync results") = 1)
    /\ [](~bypass =>
             \A c \in {"notify Failed", "release_build_farm_host",
                       "release_build_host"} :
                Did(c) => Did("rsync results") /\ ~Before(c, "rsync results"))
    /\ [](~bypass /\ (notifications # <<>> \/ ~NothingReleased) =>
             Did("rsync results"))

C18_Witness ==
    /\ vivado_result = 1
    /\ Before("build-bitstream.sh", "rsync results")
    /\ Before("rsync results", "notify Failed")
    /\ Before("rsync results", "release_build_host")

\* C19: whenever the registry entry exists the regional copy was started
\* and the success notification sent before it, in that order, and the hook
\* runs only after the registry entry was written.
C19_SuccessPathOrder ==
    /\ hwdb # <<>> =>
          /\ notifications = <<CompletedTitle>>
          /\ Before("copy_afi_to_all_regions", "notify Completed")
          /\ Before("notify Completed", "write hwdb entry")
          /\ ~Before("write hwdb entry", "notify Completed")
          /\ ~Before("notify Completed", "copy_afi_to_all_regions")
    /\ pc = "afi_hook" => Len(hwdb) = 1
    /\ Did("post_build_hook") =>
          /\ Len(hwdb) = 1
          /\ Before("write hwdb entry", "post_build_hook")
          /\ ~Before("post_build_hook", "write hwdb entry")

C19_Witness ==
    /\ pc = "returned"
    /\ Len(hwdb) = 1
    /\ Before("copy_afi_to_all_regions", "notify Completed")
    /\ Before("write hwdb entry", "post_build_hook")

C16_TerminatesWithHostReleased ==
    /\ ~bypass ~> (pc = "returned" /\ released[FarmDispatcher] = 1)
    /\ [](checkstate = "pending" => ~Ended /\ NothingReleased)
====
